---- MODULE Spec2Model ----
(***************************************************************************)
(* windfish: a Bitcoin Core mempool.dat codec (src/src/lib.rs) and its     *)
(* terminal editor (src/tui/src/main.rs).                                  *)
(*                                                                         *)
(* A byte stream is a sequence over 0..255.  Fixed-width integers are      *)
(* little-endian; their width (8 bytes in the build) is the parameter      *)
(* IntLen, a Txid's width (32 bytes in the build) is TxidLen.  A HashMap / *)
(* HashSet is its contents plus the order its iterator yields them in; the *)
(* order depends on the per-instance hash seed (std RandomState), so it is *)
(* chosen nondeterministically when the collection is built.               *)
(***************************************************************************)
EXTENDS Integers, Sequences, FiniteSets, TLC

VARIABLES
    file,             \* the input file: [exists, bytes]
    origin,           \* what the input file's writer put in it (entries, pairs, ids, cut)
    res,              \* Result of the last MempoolSerde::new call
    emitted,          \* outputs of to_bytes so far: [snap, bytes] records
    pc,               \* position of main: "start", "running", "failed", "panicked", "quit"
    mempool,          \* App.mempool
    list_state,       \* App.list_state.selected(): None or an index (0-based)
    mode,             \* App.mode
    input_buffer,     \* App.input_buffer
    status_message,   \* App.status_message (None or the text)
    animation_tick,   \* App.animation_tick
    outfile           \* the output file: [exists, bytes]

vars == <<file, origin, res, emitted, pc, mempool, list_state, mode, input_buffer,
          status_message, animation_tick, outfile>>

codecVars == <<file, origin, res, emitted>>
appVars == <<pc, mempool, list_state, mode, input_buffer, status_message,
             animation_tick, outfile>>

(***************************************************************************)
(* Bounds of the model.                                                    *)
(***************************************************************************)
IntLen == 2        \* bytes of a u64 / i64 on the wire (8 in the build)
TxidLen == 2       \* bytes of a Txid on the wire (32 in the build)
MaxItems == 3      \* entries + delta pairs + unbroadcast ids written to an input file

MEMPOOL_DUMP_VERSION_NO_XOR_KEY == 1
MEMPOOL_DUMP_VERSION == 2

(***************************************************************************)
(* Primitive codec: bitcoin::consensus ReadExt / WriteExt / VarInt.        *)
(***************************************************************************)
RECURSIVE Pow256(_)
Pow256(k) == IF k = 0 THEN 1 ELSE 256 * Pow256(k - 1)

IntMod == Pow256(IntLen)

LEBytes(n, w) == [k \in 1..w |-> (n \div Pow256(k - 1)) % 256]

RECURSIVE FromLE(_)
FromLE(b) == IF b = <<>> THEN 0 ELSE b[1] + 256 * FromLE(Tail(b))

Slice(s, pos, n) == SubSeq(s, pos + 1, pos + n)

ReadOk(v, p) == [ok |-> TRUE, val |-> v, pos |-> p]
ReadErr(e) == [ok |-> FALSE, err |-> e]

\* ReadExt::read_u64: a short read is a bitcoin::io::Error
read_u64(s, pos) ==
    IF pos + IntLen > Len(s) THEN ReadErr("BitcoinIo")
    ELSE ReadOk(FromLE(Slice(s, pos, IntLen)), pos + IntLen)

\* ReadExt::read_i64: two's complement of the same width
read_i64(s, pos) ==
    IF pos + IntLen > Len(s) THEN ReadErr("BitcoinIo")
    ELSE LET u == FromLE(Slice(s, pos, IntLen))
         IN  ReadOk(IF 2 * u >= IntMod THEN u - IntMod ELSE u, pos + IntLen)

emit_u64(v) == LEBytes(v % IntMod, IntLen)
emit_i64(v) == LEBytes(v % IntMod, IntLen)

\* VarInt::consensus_decode (CompactSize).  A value that needs the 0xFE or
\* 0xFF form exceeds 0xFFFF: it is reported as Len(s) + 1, more records than
\* any stream of this length holds.
VarInt_decode(s, pos) ==
    IF pos + 1 > Len(s) THEN ReadErr("Decode")
    ELSE LET b == s[pos + 1]
             wide(n) == IF pos + 1 + n > Len(s) THEN ReadErr("Decode")
                        ELSE IF \A k \in (n \div 2 + 1)..n : s[pos + 1 + k] = 0
                             THEN ReadErr("Decode")      \* NonMinimalVarInt
                             ELSE ReadOk(Len(s) + 1, pos + 1 + n)
         IN  IF b < 253 THEN ReadOk(b, pos + 1)
             ELSE IF b = 253
                  THEN IF pos + 3 > Len(s) THEN ReadErr("Decode")
                       ELSE LET x == FromLE(Slice(s, pos + 1, 2))
                            IN  IF x < 253 THEN ReadErr("Decode")
                                ELSE ReadOk(x, pos + 3)
                  ELSE IF b = 254 THEN wide(4) ELSE wide(8)

\* VarInt::consensus_encode, for the lengths a snapshot can have here (< 2^16)
VarInt_encode(n) == IF n < 253 THEN <<n>> ELSE <<253>> \o LEBytes(n, 2)

\* Txid::consensus_decode / consensus_encode: the hash's bytes, verbatim
Txid_decode(s, pos) ==
    IF pos + TxidLen > Len(s) THEN ReadErr("Decode")
    ELSE ReadOk(Slice(s, pos, TxidLen), pos + TxidLen)

Txid_encode(txid) == txid

(***************************************************************************)
(* bitcoin::Transaction's consensus codec, as the self-delimiting payload  *)
(* the snapshot codec relies on: a length byte and that many body bytes.   *)
(* A Transaction value is its body.                                        *)
(***************************************************************************)
Transaction_decode(s, pos) ==
    IF pos + 1 > Len(s) THEN ReadErr("Decode")
    ELSE LET n == s[pos + 1]
         IN  IF pos + 1 + n > Len(s) THEN ReadErr("Decode")
             ELSE ReadOk(Slice(s, pos + 1, n), pos + 1 + n)

Transaction_encode(tx) == <<Len(tx)>> \o tx

(***************************************************************************)
(* Collections.                                                            *)
(***************************************************************************)
\* a push that lands at the front (insert(0, x))
Vec_push_front(v, x) == <<x>> \o v

\* Vec::push
Vec_push(v, x) == Append(v, x)

\* a removal that ignores the index (pop)
Vec_pop(v, i) == SubSeq(v, 1, Len(v) - 1)

\* Vec::remove(i), i 0-based and i < len
Vec_remove(v, i) == SubSeq(v, 1, i) \o SubSeq(v, i + 2, Len(v))

\* an insert that keeps the value of an existing key (entry().or_insert)
HashMap_insert_keep(m, k, v) ==
    [x \in DOMAIN m \cup {k} |-> IF x \in DOMAIN m THEN m[x] ELSE v]

\* HashMap::insert: the value of an existing key is replaced
HashMap_insert(m, k, v) == [x \in DOMAIN m \cup {k} |-> IF x = k THEN v ELSE m[x]]

\* HashSet::insert
HashSet_insert(set, k) == set \cup {k}

EmptyMap == [x \in {} |-> 0]

\* The orders in which an iterator over a HashMap / HashSet of these keys can
\* yield them: any, fixed by the instance's hash seed.
IterOrders(keys) ==
    {p \in [1..Cardinality(keys) -> keys] :
        \A i, j \in 1..Cardinality(keys) : i # j => p[i] # p[j]}

(***************************************************************************)
(* MempoolSerde (src/src/lib.rs).                                          *)
(***************************************************************************)
Ok(v) == [kind |-> "Ok", value |-> v]
Err(e) == [kind |-> "Err", err |-> e]
Panic == [kind |-> "Panic"]
NotCalled == [kind |-> "None"]

\* lib.rs 48-58: the entry loop, n entries left to read
RECURSIVE ReadTxs(_, _, _, _)
ReadTxs(s, pos, n, txs) ==
    IF n = 0 THEN ReadOk(txs, pos)
    ELSE LET tx == Transaction_decode(s, pos)
         IN  IF ~tx.ok THEN ReadErr(tx.err)
             ELSE LET time == read_i64(s, tx.pos)
                  IN  IF ~time.ok THEN ReadErr(time.err)
                      ELSE LET fee_delta == read_i64(s, time.pos)
                           IN  IF ~fee_delta.ok THEN ReadErr(fee_delta.err)
                               ELSE ReadTxs(s, fee_delta.pos, n - 1,
                                        Vec_push(txs, [tx |-> tx.val,
                                                       time |-> time.val,
                                                       fee_delta |-> fee_delta.val]))

\* lib.rs 61-65: the fee-delta loop
RECURSIVE ReadDeltas(_, _, _, _)
ReadDeltas(s, pos, n, map_deltas) ==
    IF n = 0 THEN ReadOk(map_deltas, pos)
    ELSE LET txid == Txid_decode(s, pos)
         IN  IF ~txid.ok THEN ReadErr(txid.err)
             ELSE LET delta == read_i64(s, txid.pos)
                  IN  IF ~delta.ok THEN ReadErr(delta.err)
                      ELSE ReadDeltas(s, delta.pos, n - 1,
                                      HashMap_insert(map_deltas, txid.val, delta.val))

\* an unbroadcast loop that stops at a short read and keeps what it has
\* (while let Ok(txid) = ...)
RECURSIVE ReadUnbroadcast_lenient(_, _, _, _)
ReadUnbroadcast_lenient(s, pos, n, unbroadcast_txids) ==
    IF n = 0 THEN ReadOk(unbroadcast_txids, pos)
    ELSE LET txid == Txid_decode(s, pos)
         IN  IF ~txid.ok THEN ReadOk(unbroadcast_txids, pos)
             ELSE ReadUnbroadcast_lenient(s, txid.pos, n - 1,
                                          HashSet_insert(unbroadcast_txids, txid.val))

\* lib.rs 68-71: the unbroadcast loop
RECURSIVE ReadUnbroadcast(_, _, _, _)
ReadUnbroadcast(s, pos, n, unbroadcast_txids) ==
    IF n = 0 THEN ReadOk(unbroadcast_txids, pos)
    ELSE LET txid == Txid_decode(s, pos)
         IN  IF ~txid.ok THEN ReadErr(txid.err)
             ELSE ReadUnbroadcast(s, txid.pos, n - 1,
                                  HashSet_insert(unbroadcast_txids, txid.val))

\* MempoolSerde::new, up to the iteration order of the two hash collections
MempoolSerde_new(f) ==
    IF ~f.exists THEN Err("Io")
    ELSE LET s == f.bytes
             version == read_u64(s, 0)
         IN  IF ~version.ok THEN Err(version.err)
             ELSE IF version.val # MEMPOOL_DUMP_VERSION_NO_XOR_KEY THEN Panic
             ELSE LET count == read_u64(s, version.pos)
                  IN  IF ~count.ok THEN Err(count.err)
                  ELSE LET txs == ReadTxs(s, count.pos, count.val, <<>>)
                  IN  IF ~txs.ok THEN Err(txs.err)
                  ELSE LET nd == VarInt_decode(s, txs.pos)
                  IN  IF ~nd.ok THEN Err(nd.err)
                  ELSE LET map_deltas == ReadDeltas(s, nd.pos, nd.val, EmptyMap)
                  IN  IF ~map_deltas.ok THEN Err(map_deltas.err)
                  ELSE LET nu == VarInt_decode(s, map_deltas.pos)
                  IN  IF ~nu.ok THEN Err(nu.err)
                  ELSE LET unbroadcast_txids == ReadUnbroadcast(s, nu.pos, nu.val, {})
                  IN  IF ~unbroadcast_txids.ok THEN Err(unbroadcast_txids.err)
                  ELSE Ok([version |-> version.val,
                           txs |-> txs.val,
                           map_deltas |-> map_deltas.val,
                           unbroadcast_txids |-> unbroadcast_txids.val])

\* A MempoolSerde whose collections iterate in the orders di, ui
WithIter(v, di, ui) ==
    [version |-> v.version, txs |-> v.txs, map_deltas |-> v.map_deltas,
     unbroadcast_txids |-> v.unbroadcast_txids,
     deltas_iter |-> di, unbroadcast_iter |-> ui]

\* The contents of a MempoolSerde, without the collections' iteration state
Logical(m) ==
    [version |-> m.version, txs |-> m.txs, map_deltas |-> m.map_deltas,
     unbroadcast_txids |-> m.unbroadcast_txids]

\* lib.rs 90-94
RECURSIVE EncodeTxs(_)
EncodeTxs(txs) ==
    IF txs = <<>> THEN <<>>
    ELSE Transaction_encode(txs[1].tx) \o emit_i64(txs[1].time)
         \o emit_i64(txs[1].fee_delta) \o EncodeTxs(Tail(txs))

\* lib.rs 97-100: for (txid, delta) in &self.map_deltas
RECURSIVE EncodeDeltas(_, _)
EncodeDeltas(map_deltas, iter) ==
    IF iter = <<>> THEN <<>>
    ELSE Txid_encode(iter[1]) \o emit_i64(map_deltas[iter[1]])
         \o EncodeDeltas(map_deltas, Tail(iter))

\* lib.rs 103-105: for txid in &self.unbroadcast_txids
RECURSIVE EncodeUnbroadcast(_)
EncodeUnbroadcast(iter) ==
    IF iter = <<>> THEN <<>>
    ELSE Txid_encode(iter[1]) \o EncodeUnbroadcast(Tail(iter))

\* MempoolSerde::to_bytes (writes to a Vec cannot fail: the Ok value)
to_bytes(m) ==
    emit_u64(m.version) \o emit_u64(Len(m.txs)) \o EncodeTxs(m.txs)
    \o VarInt_encode(Cardinality(DOMAIN m.map_deltas))
    \o EncodeDeltas(m.map_deltas, m.deltas_iter)
    \o VarInt_encode(Cardinality(m.unbroadcast_txids))
    \o EncodeUnbroadcast(m.unbroadcast_iter)

(***************************************************************************)
(* Input files.  A writer lays out a version tag, the entries, the delta   *)
(* pairs and the unbroadcast ids in the legacy layout; the file is the     *)
(* first `cut` bytes of that layout followed by one stray byte.            *)
(***************************************************************************)
TxidOf(k) == [i \in 1..TxidLen |-> k]

Txids == {TxidOf(1), TxidOf(2)}

PoolEntries == {[tx |-> <<7>>, time |-> 5, fee_delta |-> 0],
                [tx |-> <<>>, time |-> -1, fee_delta |-> -500]}

DeltaPairs == {<<TxidOf(1), -500>>, <<TxidOf(1), 3>>, <<TxidOf(2), 3>>}

SeqsUpTo(S, n) == UNION {[1..k -> S] : k \in 0..n}

RECURSIVE LayoutEntries(_)
LayoutEntries(entries) ==
    IF entries = <<>> THEN <<>>
    ELSE <<Len(entries[1].tx)>> \o entries[1].tx
         \o LEBytes(entries[1].time % IntMod, IntLen)
         \o LEBytes(entries[1].fee_delta % IntMod, IntLen)
         \o LayoutEntries(Tail(entries))

RECURSIVE LayoutDeltas(_)
LayoutDeltas(pairs) ==
    IF pairs = <<>> THEN <<>>
    ELSE pairs[1][1] \o LEBytes(pairs[1][2] % IntMod, IntLen)
         \o LayoutDeltas(Tail(pairs))

RECURSIVE LayoutIds(_)
LayoutIds(ids) == IF ids = <<>> THEN <<>> ELSE ids[1] \o LayoutIds(Tail(ids))

Layout(c) ==
    LEBytes(c.version, IntLen) \o LEBytes(Len(c.entries), IntLen)
    \o LayoutEntries(c.entries)
    \o <<Len(c.deltas)>> \o LayoutDeltas(c.deltas)
    \o <<Len(c.unbroadcast)>> \o LayoutIds(c.unbroadcast)

Items(c) == Len(c.entries) + Len(c.deltas) + Len(c.unbroadcast)

ContentsOf(versions, n) ==
    UNION {UNION {UNION {
        [version : versions,
         entries : [1..a -> PoolEntries],
         deltas : [1..b -> DeltaPairs],
         unbroadcast : [1..c -> Txids]]
        : c \in 0..(n - a - b)} : b \in 0..(n - a)} : a \in 0..n}

\* legacy files of up to n items, and small files with another version tag
Contents(n) ==
    ContentsOf({MEMPOOL_DUMP_VERSION_NO_XOR_KEY}, n)
    \cup ContentsOf({MEMPOOL_DUMP_VERSION, 3}, 1)

Stray == <<0>>

\* cut = -1: there is no file at the path
Origins(n) ==
    UNION {{[content |-> c, cut |-> k] : k \in 0 .. Len(Layout(c)) + 1} : c \in Contents(n)}
    \cup {[content |-> c, cut |-> -1] : c \in Contents(0)}

NoFile == [exists |-> FALSE, bytes |-> <<>>]

FileOf(o) ==
    IF o.cut < 0 THEN NoFile
    ELSE [exists |-> TRUE, bytes |-> SubSeq(Layout(o.content) \o Stray, 1, o.cut)]

Complete(o) == o.cut = Len(Layout(o.content))
Truncated(o) == 0 <= o.cut /\ o.cut < Len(Layout(o.content))
Legacy(o) == o.content.version = MEMPOOL_DUMP_VERSION_NO_XOR_KEY

(***************************************************************************)
(* The codec on its own, as tests::roundtrip_serialization drives it:      *)
(* MempoolSerde::new on the input file, then to_bytes on the value.        *)
(***************************************************************************)
NoMempool == WithIter([version |-> 0, txs |-> <<>>, map_deltas |-> EmptyMap,
                       unbroadcast_txids |-> {}], <<>>, <<>>)

InitApp ==
    /\ pc = "start"
    /\ mempool = NoMempool
    /\ list_state = <<>>
    /\ mode = "Normal"
    /\ input_buffer = <<>>
    /\ status_message = <<>>
    /\ animation_tick = 0
    /\ outfile = NoFile

InitCodec ==
    /\ origin \in Origins(MaxItems)
    /\ file = FileOf(origin)
    /\ res = NotCalled
    /\ emitted = {}
    /\ InitApp

\* let mempool = MempoolSerde::new(path)
CodecNew ==
    /\ LET r == MempoolSerde_new(file)
       IN  \/ /\ r.kind = "Ok"
              /\ \E di \in IterOrders(DOMAIN r.value.map_deltas),
                    ui \in IterOrders(r.value.unbroadcast_txids) :
                     res' = Ok(WithIter(r.value, di, ui))
           \/ /\ r.kind # "Ok"
              /\ res' = r
    /\ UNCHANGED <<file, origin, emitted, appVars>>

\* mempool.to_bytes().unwrap()
CodecToBytes ==
    /\ res.kind = "Ok"
    /\ emitted' = emitted \cup {[snap |-> Logical(res.value),
                                 bytes |-> to_bytes(res.value)]}
    /\ UNCHANGED <<file, origin, res, appVars>>

NextCodec == CodecNew \/ CodecToBytes

SpecCodec == InitCodec /\ [][NextCodec]_vars

(***************************************************************************)
(* The editor (src/tui/src/main.rs).  An App value is the record of its    *)
(* fields; an Option is a sequence of at most one element.                 *)
(***************************************************************************)
MaxTxs == 2        \* the editor inserts while there are fewer entries than this
MaxInput == 2      \* characters typed into the input buffer
TickWrap == 2      \* animation_tick wraps here (at 2^64 in the build)

None == <<>>
Some(x) == <<x>>

KeyChars == {"0", "1", "g", " "}    \* the characters typed
Clock == {9}       \* chrono::Utc::now().timestamp()

\* App::new
App_new(m) ==
    [mempool |-> m,
     list_state |-> IF m.txs # <<>> THEN Some(0) ELSE None,
     mode |-> "Normal",
     input_buffer |-> <<>>,
     status_message |-> None,
     animation_tick |-> 0]

\* App::set_status
set_status(a, msg) == [a EXCEPT !.status_message = Some(msg)]

\* a next that does not wrap at the end of the list
next_nowrap(a) ==
    LET len == Len(a.mempool.txs)
    IN  IF len = 0 THEN a
        ELSE [a EXCEPT !.list_state =
                 Some(IF a.list_state = None THEN 0 ELSE a.list_state[1] + 1)]

\* App::next
next(a) ==
    LET len == Len(a.mempool.txs)
    IN  IF len = 0 THEN a
        ELSE [a EXCEPT !.list_state =
                 Some(IF a.list_state = None THEN 0 ELSE (a.list_state[1] + 1) % len)]

\* App::previous
previous(a) ==
    LET len == Len(a.mempool.txs)
    IN  IF len = 0 THEN a
        ELSE [a EXCEPT !.list_state =
                 Some(IF a.list_state = None THEN 0
                      ELSE IF a.list_state[1] = 0 THEN len - 1
                           ELSE a.list_state[1] - 1)]

\* a delete that also drops the fee deltas kept for the entries
delete_selected_purge(a) ==
    IF a.list_state # None /\ a.list_state[1] < Len(a.mempool.txs)
    THEN LET i == a.list_state[1]
             txs == Vec_remove(a.mempool.txs, i)
             b == set_status([a EXCEPT !.mempool.txs = txs,
                                       !.mempool.map_deltas = EmptyMap,
                                       !.mempool.deltas_iter = <<>>],
                             "Transaction deleted")
         IN  IF txs = <<>> THEN [b EXCEPT !.list_state = None]
             ELSE IF i >= Len(txs) THEN [b EXCEPT !.list_state = Some(Len(txs) - 1)]
                  ELSE b
    ELSE a

\* App::delete_selected
delete_selected(a) ==
    IF a.list_state # None /\ a.list_state[1] < Len(a.mempool.txs)
    THEN LET i == a.list_state[1]
             txs == Vec_remove(a.mempool.txs, i)
             b == set_status([a EXCEPT !.mempool.txs = txs], "Transaction deleted")
         IN  IF txs = <<>> THEN [b EXCEPT !.list_state = None]
             ELSE IF i >= Len(txs) THEN [b EXCEPT !.list_state = Some(Len(txs) - 1)]
                  ELSE b
    ELSE a

\* str::trim, over the whitespace of KeyChars
RECURSIVE TrimStart(_)
TrimStart(s) == IF s # <<>> /\ s[1] = " " THEN TrimStart(Tail(s)) ELSE s

RECURSIVE TrimEnd(_)
TrimEnd(s) ==
    IF s # <<>> /\ s[Len(s)] = " " THEN TrimEnd(SubSeq(s, 1, Len(s) - 1)) ELSE s

trim(s) == TrimEnd(TrimStart(s))

HexDigits == {"0", "1"}
HexVal(c) == IF c = "0" THEN 0 ELSE 1

\* hex::decode: an odd length or a non-hex character is an error
hex_decode(s) ==
    IF Len(s) % 2 # 0 \/ \E k \in 1..Len(s) : s[k] \notin HexDigits
    THEN [ok |-> FALSE, err |-> "Invalid hex"]
    ELSE [ok |-> TRUE,
          val |-> [k \in 1..(Len(s) \div 2) |->
                      16 * HexVal(s[2 * k - 1]) + HexVal(s[2 * k])]]

\* App::insert_tx: the App afterwards and the Result
insert_tx(a, hex, now) ==
    LET bytes == hex_decode(trim(hex))
    IN  IF ~bytes.ok THEN [app |-> a, ok |-> FALSE, err |-> bytes.err]
        ELSE LET tx == Transaction_decode(bytes.val, 0)
             IN  IF ~tx.ok
                 THEN [app |-> a, ok |-> FALSE, err |-> "Invalid transaction"]
                 ELSE LET txs == Vec_push(a.mempool.txs,
                                     [tx |-> tx.val, time |-> now, fee_delta |-> 0])
                          b == [a EXCEPT !.mempool.txs = txs,
                                         !.list_state = Some(Len(txs) - 1)]
                      IN  [app |-> set_status(b, "Transaction inserted"),
                           ok |-> TRUE, err |-> ""]

\* MempoolSerde::write_to_file under the file system's answer io: the Result
\* and the output file afterwards.  File::create truncates the file it opens;
\* a failed write_all leaves the first io.written bytes.
write_to_file(m, out, io) ==
    LET bytes == to_bytes(m)
    IN  IF io.step = "create"
        THEN [ok |-> FALSE, err |-> "IO error", outfile |-> out]
        ELSE IF io.step = "write"
             THEN [ok |-> FALSE, err |-> "IO error",
                   outfile |-> [exists |-> TRUE,
                                bytes |-> SubSeq(bytes, 1, io.written)]]
             ELSE [ok |-> TRUE, err |-> "",
                   outfile |-> [exists |-> TRUE, bytes |-> bytes]]

\* The answers of the file system to a write of n bytes: success, File::create
\* fails, or write_all fails (here before its first byte reaches the file)
IoFailures == {[step |-> "create", written |-> 0], [step |-> "write", written |-> 0]}

IoAnswers(n) == {[step |-> "none", written |-> n]} \cup IoFailures

\* App::save
save(a, out, io) ==
    LET r == write_to_file(a.mempool, out, io)
    IN  IF r.ok THEN r ELSE [r EXCEPT !.err = "Save failed: " \o r.err]

\* App::tick; expired: the status is older than three seconds
tick(a, expired) ==
    LET b == [a EXCEPT !.animation_tick = (a.animation_tick + 1) % TickWrap]
    IN  IF b.status_message # None /\ expired
        THEN [b EXCEPT !.status_message = None]
        ELSE b

\* a handler that drops the Result of save (let _ = app.save())
on_key_s_swallow(a, out, io) ==
    LET r == save(a, out, io)
    IN  [app |-> set_status(a, "Saved successfully!"), outfile |-> r.outfile]

\* main, lines 181-184: KeyCode::Char('s')
on_key_s(a, out, io) ==
    LET r == save(a, out, io)
    IN  [app |-> set_status(a, IF r.ok THEN "Saved successfully!" ELSE r.err),
         outfile |-> r.outfile]

\* a handler that leaves Insert mode whatever insert_tx returns
on_key_enter_leave(a, now) ==
    LET hex == a.input_buffer
        r == insert_tx(a, hex, now)
        b == IF r.ok THEN r.app ELSE set_status(r.app, r.err)
    IN  [b EXCEPT !.mode = "Normal", !.input_buffer = <<>>]

\* main, lines 192-199: KeyCode::Enter in Insert mode
on_key_enter(a, now) ==
    LET hex == a.input_buffer
        r == insert_tx(a, hex, now)
        b == IF r.ok THEN [r.app EXCEPT !.mode = "Normal"] ELSE set_status(r.app, r.err)
    IN  [b EXCEPT !.input_buffer = <<>>]

(***************************************************************************)
(* main: load the input file, then handle key presses and ticks.           *)
(***************************************************************************)
AppNow ==
    [mempool |-> mempool, list_state |-> list_state, mode |-> mode,
     input_buffer |-> input_buffer, status_message |-> status_message,
     animation_tick |-> animation_tick]

SetApp(a) ==
    /\ mempool' = a.mempool
    /\ list_state' = a.list_state
    /\ mode' = a.mode
    /\ input_buffer' = a.input_buffer
    /\ status_message' = a.status_message
    /\ animation_tick' = a.animation_tick

appFields == <<mempool, list_state, mode, input_buffer, status_message, animation_tick>>

\* The files the editor is started on
EditorContents ==
    {[version |-> MEMPOOL_DUMP_VERSION_NO_XOR_KEY,
      entries |-> <<[tx |-> <<7>>, time |-> 5, fee_delta |-> 0],
                    [tx |-> <<>>, time |-> -1, fee_delta |-> -500]>>,
      deltas |-> <<<<TxidOf(1), -500>>>>,
      unbroadcast |-> <<>>],
     [version |-> MEMPOOL_DUMP_VERSION_NO_XOR_KEY,
      entries |-> <<>>,
      deltas |-> <<<<TxidOf(1), -500>>, <<TxidOf(2), 3>>>>,
      unbroadcast |-> <<>>],
     [version |-> MEMPOOL_DUMP_VERSION,
      entries |-> <<>>, deltas |-> <<>>, unbroadcast |-> <<>>]}

\* each whole, cut inside its first record, and missing
EditorOrigins ==
    UNION {{[content |-> c, cut |-> k] :
               k \in {-1, 2 * IntLen + 1, Len(Layout(c))}} : c \in EditorContents}

Init ==
    /\ origin \in EditorOrigins
    /\ file = FileOf(origin)
    /\ res = NotCalled
    /\ emitted = {}
    /\ InitApp

\* lines 151-152: MempoolSerde::new(&args.input)?, App::new
Main ==
    /\ pc = "start"
    /\ LET r == MempoolSerde_new(file)
       IN  \/ /\ r.kind = "Ok"
              /\ \E di \in IterOrders(DOMAIN r.value.map_deltas),
                    ui \in IterOrders(r.value.unbroadcast_txids) :
                     /\ res' = Ok(WithIter(r.value, di, ui))
                     /\ SetApp(App_new(WithIter(r.value, di, ui)))
              /\ pc' = "running"
           \/ /\ r.kind = "Err"
              /\ res' = r
              /\ pc' = "failed"
              /\ UNCHANGED appFields
           \/ /\ r.kind = "Panic"
              /\ res' = r
              /\ pc' = "panicked"
              /\ UNCHANGED appFields
    /\ UNCHANGED <<file, origin, emitted, outfile>>

Running(m) == pc = "running" /\ mode = m

Handled(a) ==
    /\ SetApp(a)
    /\ UNCHANGED <<file, origin, res, emitted, pc, outfile>>

KeyQuit ==
    /\ Running("Normal")
    /\ pc' = "quit"
    /\ UNCHANGED <<file, origin, res, emitted, appFields, outfile>>

KeyDown == Running("Normal") /\ Handled(next(AppNow))

KeyUp == Running("Normal") /\ Handled(previous(AppNow))

KeyD == Running("Normal") /\ Handled(delete_selected(AppNow))

KeyI ==
    /\ Running("Normal")
    /\ Handled([AppNow EXCEPT !.mode = "Insert", !.input_buffer = <<>>])

KeySWith(io) ==
    /\ Running("Normal")
    /\ LET r == on_key_s(AppNow, outfile, io)
       IN  /\ SetApp(r.app)
           /\ outfile' = r.outfile
    /\ UNCHANGED <<file, origin, res, emitted, pc>>

KeyS == \E io \in IoAnswers(Len(to_bytes(mempool))) : KeySWith(io)

KeyEsc ==
    /\ Running("Insert")
    /\ Handled([AppNow EXCEPT !.mode = "Normal", !.input_buffer = <<>>])

KeyEnter ==
    /\ Running("Insert")
    /\ \E now \in Clock :
          LET a == on_key_enter(AppNow, now)
          IN  /\ Len(a.mempool.txs) <= MaxTxs
              /\ Handled(a)

\* String::pop
KeyBackspace ==
    /\ Running("Insert")
    /\ Handled([AppNow EXCEPT !.input_buffer =
                   SubSeq(input_buffer, 1, Len(input_buffer) - 1)])

KeyChar ==
    /\ Running("Insert")
    /\ Len(input_buffer) < MaxInput
    /\ \E c \in KeyChars : Handled([AppNow EXCEPT !.input_buffer = Append(input_buffer, c)])

\* any other key: the `_ => {}` arms
KeyIgnored ==
    /\ pc = "running"
    /\ UNCHANGED vars

Tick ==
    /\ pc = "running"
    /\ \E expired \in BOOLEAN : Handled(tick(AppNow, expired))

Next ==
    \/ Main
    \/ KeyQuit \/ KeyDown \/ KeyUp \/ KeyD \/ KeyI \/ KeyS
    \/ KeyEsc \/ KeyEnter \/ KeyBackspace \/ KeyChar
    \/ KeyIgnored
    \/ Tick

Spec == Init /\ [][Next]_vars

(***************************************************************************)
(* Properties.                                                             *)
(***************************************************************************)
Range(f) == {f[k] : k \in DOMAIN f}

Loaded == res.kind = "Ok"

\* the bytes of the version tag, the entry count and the entries the writer laid out
EntriesEnd == 2 * IntLen + Len(LayoutEntries(origin.content.entries))

\* the writer put no identifier twice into a section
NoRepeats(o) ==
    /\ \A j, k \in 1..Len(o.content.deltas) :
          j # k => o.content.deltas[j][1] # o.content.deltas[k][1]
    /\ \A j, k \in 1..Len(o.content.unbroadcast) :
          j # k => o.content.unbroadcast[j] # o.content.unbroadcast[k]

\* C1: for every legacy file that MempoolSerde::new decodes, to_bytes of the
\* loaded value is the file's bytes, delta-map and unbroadcast sections in
\* their on-disk order and with their on-disk counts.  Stated of the files
\* that are exactly a writer's layout of distinct identifiers.
C1_RoundTrip ==
    \A e \in emitted : (Complete(origin) /\ NoRepeats(origin)) => e.bytes = file.bytes

\* C2: MempoolSerde::new on a file whose version tag is not the legacy
\* constant returns an error value to its caller.
C2_VersionGate ==
    (/\ res.kind # "None"
     /\ file.exists
     /\ Len(file.bytes) >= IntLen
     /\ FromLE(SubSeq(file.bytes, 1, IntLen)) # MEMPOOL_DUMP_VERSION_NO_XOR_KEY)
    => res.kind = "Err"

\* C3: a legacy file that ends before all the content it declares has been
\* read makes MempoolSerde::new return a decode error and no MempoolSerde,
\* whatever was decoded before the end.
C3_MalformedRejected ==
    (/\ res.kind # "None"
     /\ Truncated(origin)
     /\ (Legacy(origin) \/ origin.cut < IntLen))
    => /\ res.kind = "Err"
       /\ res.err \in {"Decode", "BitcoinIo"}
       /\ DOMAIN res = {"kind", "err"}

C3_Witness ==
    /\ res.kind = "Err"
    /\ Legacy(origin)
    /\ Len(origin.content.entries) >= 2
    /\ origin.cut > 2 * IntLen + Len(LayoutEntries(<<origin.content.entries[1]>>))
    /\ Truncated(origin)

Payload(buf) ==
    LET bytes == hex_decode(trim(buf))
    IN  IF bytes.ok THEN Transaction_decode(bytes.val, 0) ELSE bytes

\* C5: inserting a validly decoded payload makes the sequence one longer, the
\* new entry (the payload, the current time, fee_delta 0) is its last element
\* and every earlier entry keeps its position.
C5_InsertAppends ==
    [][(KeyEnter /\ Payload(input_buffer).ok) =>
         LET N == Len(mempool.txs)
         IN  /\ Len(mempool'.txs) = N + 1
             /\ SubSeq(mempool'.txs, 1, N) = mempool.txs
             /\ mempool'.txs[N + 1].tx = Payload(input_buffer).val
             /\ mempool'.txs[N + 1].time \in Clock
             /\ mempool'.txs[N + 1].fee_delta = 0]_vars

C5_Witness ==
    /\ status_message = Some("Transaction inserted")
    /\ Len(mempool.txs) = 2
    /\ mempool.txs[1] \in PoolEntries
    /\ mempool.txs[2].time \in Clock

\* C6: Enter in Insert mode on input that is not valid hex or not a
\* transaction shows the error as the status, stays in Insert mode with the
\* same selection and leaves the MempoolSerde as it is.
C6_InvalidInputKeepsModel ==
    [][(KeyEnter /\ ~Payload(input_buffer).ok) =>
         /\ status_message' \in {Some("Invalid hex"), Some("Invalid transaction")}
         /\ mode' = "Insert"
         /\ list_state' = list_state
         /\ mempool' = mempool
         /\ pc' = "running"]_vars

C6_Witness ==
    /\ mode = "Insert"
    /\ status_message = Some("Invalid hex")
    /\ list_state = Some(1)
    /\ Len(mempool.txs) = 2

\* C7: two to_bytes outputs of values with the same contents (entries, delta
\* pairs, unbroadcast ids) are the same bytes.
C7_DeterministicOrder ==
    \A a, b \in emitted : a.snap = b.snap => a.bytes = b.bytes

\* C8: new appends the entries in file order and to_bytes emits them in
\* sequence order behind their count: the loaded entries are the file's, and
\* the output agrees with the file up to the end of the entries.
C8_EntryOrder ==
    Loaded =>
      /\ res.value.txs = origin.content.entries
      /\ \A e \in emitted :
            SubSeq(e.bytes, 1, EntriesEnd) = SubSeq(file.bytes, 1, EntriesEnd)

C8_Witness ==
    /\ Loaded
    /\ emitted # {}
    /\ Len(origin.content.entries) >= 2
    /\ origin.content.entries[1] # origin.content.entries[2]

\* C9: a save that fails shows its error as the status (never "Saved
\* successfully!"), and the editor stays running in Normal mode with the
\* MempoolSerde and the selection as they were.
C9_SaveErrorSurfaced ==
    [][\A io \in IoFailures :
          KeySWith(io) =>
             /\ status_message' = Some("Save failed: IO error")
             /\ mode' = "Normal"
             /\ mempool' = mempool
             /\ list_state' = list_state
             /\ pc' = "running"]_vars

C9_Witness ==
    /\ status_message = Some("Save failed: IO error")
    /\ pc = "running"
    /\ mempool.txs # <<>>
    /\ outfile.exists
    /\ outfile.bytes = <<>>

\* the delta of the last pair for id in the file
LastDelta(pairs, id) ==
    LET at == {k \in 1..Len(pairs) : pairs[k][1] = id}
    IN  pairs[CHOOSE k \in at : \A j \in at : j <= k][2]

FileDeltaIds == {p[1] : p \in Range(origin.content.deltas)}

\* C10: an identifier that the delta-map section holds more than once is
\* loaded as one pair, with the delta that comes last in the file; one that
\* the unbroadcast section repeats is one member of the set.
C10_LastWriteWins ==
    Loaded =>
      /\ DOMAIN res.value.map_deltas = FileDeltaIds
      /\ \A id \in FileDeltaIds :
            res.value.map_deltas[id] = LastDelta(origin.content.deltas, id)
      /\ res.value.unbroadcast_txids = Range(origin.content.unbroadcast)
      /\ \A e \in emitted :
            Len(e.bytes) = EntriesEnd
                           + 1 + Cardinality(FileDeltaIds) * (TxidLen + IntLen)
                           + 1 + Cardinality(Range(origin.content.unbroadcast)) * TxidLen

C10_Witness ==
    /\ Loaded
    /\ emitted # {}
    /\ \E j, k \in 1..Len(origin.content.deltas) :
          /\ j < k
          /\ origin.content.deltas[j][1] = origin.content.deltas[k][1]
          /\ origin.content.deltas[j][2] # origin.content.deltas[k][2]

\* the version tag and the two collections are the ones MempoolSerde::new returned
AsLoaded ==
    /\ Loaded
    /\ mempool.version = res.value.version
    /\ mempool.map_deltas = res.value.map_deltas
    /\ mempool.unbroadcast_txids = res.value.unbroadcast_txids
    /\ mempool.deltas_iter = res.value.deltas_iter
    /\ mempool.unbroadcast_iter = res.value.unbroadcast_iter

\* t is s without one element, or s with one element behind it, or s
RemovedOrAppended(s, t) ==
    \/ t = s
    \/ \E i \in 1..Len(s) : t = SubSeq(s, 1, i - 1) \o SubSeq(s, i + 1, Len(s))
    \/ Len(t) = Len(s) + 1 /\ SubSeq(t, 1, Len(s)) = s

\* C11: no editor action (next, previous, delete, insert attempt, save, mode
\* switch, tick) changes an entry that stays in the sequence: the sequence
\* only loses one entry or gains one at its end; the version tag, the delta
\* map and the unbroadcast set stay as loaded, also after a delete; only
\* delete and a confirmed insert touch the MempoolSerde at all.
C11_EditsOnlyRemoveOrAppend ==
    [][/\ pc' \in {"running", "quit"} => AsLoaded'
       /\ pc = "running" => RemovedOrAppended(mempool.txs, mempool'.txs)
       /\ (KeyDown \/ KeyUp \/ KeyI \/ KeyS \/ KeyEsc \/ KeyBackspace \/ KeyChar
           \/ Tick \/ KeyQuit \/ (KeyEnter /\ ~Payload(input_buffer).ok))
          => mempool' = mempool]_vars

C11_Witness ==
    /\ pc = "running"
    /\ status_message = Some("Transaction inserted")
    /\ outfile.exists
    /\ Len(origin.content.entries) = 2
    /\ Len(mempool.txs) = 2
    /\ mempool.txs[1] = origin.content.entries[2]
    /\ mempool.txs[2].time \in Clock
    /\ DOMAIN mempool.map_deltas # {}
    /\ AsLoaded

\* nothing is selected exactly when there are no entries; a selected index is
\* one of the sequence
SelectionValid ==
    /\ list_state = None <=> mempool.txs = <<>>
    /\ list_state # None => list_state[1] \in 0..(Len(mempool.txs) - 1)

\* C12: in every state reached from App::new by next, previous, delete,
\* insert (valid or not), save and mode switches the selection is None exactly
\* when the sequence is empty and otherwise an index below its length; next
\* and previous wrap around (last -> 0, 0 -> last) and leave the sequence as
\* it is.
C12_SelectionInvariant ==
    /\ SelectionValid
    /\ [][/\ SelectionValid'
          /\ KeyDown =>
                /\ mempool' = mempool
                /\ list_state' =
                      IF mempool.txs = <<>> THEN None
                      ELSE Some(IF list_state[1] = Len(mempool.txs) - 1 THEN 0
                                ELSE list_state[1] + 1)
          /\ KeyUp =>
                /\ mempool' = mempool
                /\ list_state' =
                      IF mempool.txs = <<>> THEN None
                      ELSE Some(IF list_state[1] = 0 THEN Len(mempool.txs) - 1
                                ELSE list_state[1] - 1)]_vars

\* the second of two entries was selected and deleted: the selection moved to
\* the entry left
C12_Witness ==
    /\ pc = "running"
    /\ status_message = Some("Transaction deleted")
    /\ Len(origin.content.entries) = 2
    /\ mempool.txs = <<origin.content.entries[1]>>
    /\ list_state = Some(0)

====
